---- MODULE Spec2Model ----
(***************************************************************************)
(* The publishing pipeline of thread-auto: post_to_threads                 *)
(* (src/thread_formatter.py) driving _create_container and                 *)
(* _publish_container against the Threads Graph API, and the steps of      *)
(* run_pipeline (src/main.py) around it: validation of the generated        *)
(* content, the choice of dry run or production, the report of the result  *)
(* and the archive.                                                        *)
(*                                                                         *)
(* Spec is one run of post_to_threads with the report of its result;       *)
(* PipelineSpec is one run of run_pipeline from the validation on;         *)
(* TwoRunSpec is a run of post_to_threads followed by a second on the same *)
(* arguments; PureSpec applies format_output and the request building of   *)
(* _create_container to arguments of their own.                            *)
(*                                                                         *)
(* One behaviour is one run.  Each action is one blocking network call of  *)
(* the run together with all the local code up to the next call.  The      *)
(* platform's answer to a call is chosen nondeterministically.             *)
(*                                                                         *)
(* Python lists are 0-based and TLA+ sequences 1-based: image_urls[j] of   *)
(* the source is image_urls[j + 1] here.                                   *)
(***************************************************************************)
EXTENDS Integers, Sequences, FiniteSets, TLC

\* Bounds of the model: the longest replies list and image list of a run.
MaxReplies == 2
MaxImages == 3

\* Python's None, and the absence of a key from a request's params dict.
None == "None"
Absent == "<absent>"

VARIABLES
    data,            \* the content: [type, main_post, replies]
    image_urls,      \* the ordered image list
    source_url,      \* the article's link
    pc,              \* the position of the run
    user_id,         \* post_to_threads: user_id
    item_ids,        \* post_to_threads: item_ids (the carousel's children)
    img_idx,         \* the position of "for img_url in image_urls"
    container_id,    \* post_to_threads: container_id (the root's container)
    last_post_id,    \* post_to_threads: last_post_id
    reply_idx,       \* the position of "for i, reply_text in enumerate(replies)"
    cont_id,         \* post_to_threads: cont_id (the current reply's container)
    source_cont_id,  \* post_to_threads: source_cont_id
    calls,           \* every network request of the run, in order, with its answer
    result,          \* what post_to_threads gave its caller
    printed,         \* what run_pipeline printed about the result
    content,         \* run_pipeline: content, as the generator returned it
    DRY_RUN,         \* main.py: DRY_RUN
    THREADS_ACCESS_TOKEN,  \* main.py: THREADS_ACCESS_TOKEN
    valid,           \* what "not content or not validate_content(content)" found
    dry_run_printed, \* the number of print_dry_run calls of the run
    archived,        \* the number of save_archive calls of the run
    run,             \* which call of post_to_threads this is: 1 or 2
    first_calls,     \* the request log of the first call, once the second began
    applied          \* a function applied on its own: its name, arguments, value

vars == <<data, image_urls, source_url, pc, user_id, item_ids, img_idx,
          container_id, last_post_id, reply_idx, cont_id, source_cont_id,
          calls, result, printed, content, DRY_RUN, THREADS_ACCESS_TOKEN,
          valid, dry_run_printed, archived, run, first_calls, applied>>

\* What a second call of post_to_threads, or a function applied on its own,
\* adds to the state; one run of the program leaves it alone.
RunVars == <<run, first_calls, applied>>

NotApplied == [fn |-> "none"]

\* The state of run_pipeline outside post_to_threads.
PipelineVars ==
    <<content, DRY_RUN, THREADS_ACCESS_TOKEN, valid, dry_run_printed, archived>>

----------------------------------------------------------------------------
(* Inputs *)

ImageUrl(j) == "i" \o ToString(j - 1)
ReplyText(i) == "reply" \o ToString(i)

Contents ==
    { [type |-> t, main_post |-> "R", replies |-> [i \in 1..k |-> ReplyText(i)]] :
        t \in {"single", "multi"}, k \in 0..MaxReplies }

ImageLists == { [j \in 1..n |-> ImageUrl(j)] : n \in 0..MaxImages }

SourceUrls == {"http://x", "http://y"}

----------------------------------------------------------------------------
(* The platform's answers *)

\* A 2xx response with an id, a 2xx response whose JSON has no id, a response
\* that raise_for_status() or json() rejects, and a transport error raised by
\* requests before any response object exists.
Outcomes == {"ok", "no_id", "http_error", "transport_error"}

\* The ids the platform hands out are opaque and never handed out twice; the
\* model tags them by their kind and numbers them by the requests made so far.
Requests == Len(first_calls) + Len(calls)

FreshCreationId == "c" \o ToString(Requests + 1)
FreshPostId == "p" \o ToString(Requests + 1)
FreshUserId == "u1"

IsCreationId(x) == \E n \in 1..(Requests + 1) : x = "c" \o ToString(n)
IsPostId(x) == \E n \in 1..(Requests + 1) : x = "p" \o ToString(n)

\* Python truthiness of an Optional[str].
Truthy(x) == x # None /\ x # ""

\* ReturnedId making a string of whatever the response holds under "id",
\* so that a missing id reads as the text "null".
ReturnedId_MissingIdAsText(outcome, fresh) ==
    IF outcome = "ok" THEN fresh
    ELSE IF outcome = "no_id" THEN "null"
    ELSE None

\* response.json().get("id") after raise_for_status(), or None from the
\* except clause.
ReturnedId(outcome, fresh) == IF outcome = "ok" THEN fresh ELSE None

\* The except clauses of _create_container and _publish_container format
\* response.text: when requests.post itself raised, response is unbound and
\* the handler raises UnboundLocalError, which nothing catches.
HandlerRaises(outcome) == outcome = "transport_error"

----------------------------------------------------------------------------
(* _create_container and _publish_container: the request each builds *)

RECURSIVE Join(_)
Join(ids) ==
    IF ids = <<>> THEN ""
    ELSE IF Len(ids) = 1 THEN ids[1]
    ELSE ids[1] \o "," \o Join(Tail(ids))

NoParams ==
    [media_type |-> Absent, text |-> Absent, image_url |-> Absent,
     is_carousel_item |-> Absent, children |-> Absent, reply_to_id |-> Absent,
     creation_id |-> Absent]

\* CreateParams putting the text on a carousel item too.
CreateParams_ItemText(text, image_url, reply_to_id, is_carousel_item, children) ==
    IF is_carousel_item
    THEN [NoParams EXCEPT !.media_type = "IMAGE",
                          !.image_url = image_url,
                          !.is_carousel_item = "true",
                          !.text = text]
    ELSE IF children # <<>>
    THEN [NoParams EXCEPT !.media_type = "CAROUSEL",
                          !.children = Join(children),
                          !.text = text,
                          !.reply_to_id =
                              IF Truthy(reply_to_id) THEN reply_to_id ELSE Absent]
    ELSE [NoParams EXCEPT !.media_type =
                              IF Truthy(image_url) THEN "IMAGE" ELSE "TEXT",
                          !.text = text,
                          !.image_url =
                              IF Truthy(image_url) THEN image_url ELSE Absent,
                          !.reply_to_id =
                              IF Truthy(reply_to_id) THEN reply_to_id ELSE Absent]

CreateParams(text, image_url, reply_to_id, is_carousel_item, children) ==
    IF is_carousel_item
    THEN [NoParams EXCEPT !.media_type = "IMAGE",
                          !.image_url = image_url,
                          !.is_carousel_item = "true"]
    ELSE IF children # <<>>
    THEN [NoParams EXCEPT !.media_type = "CAROUSEL",
                          !.children = Join(children),
                          !.text = text,
                          !.reply_to_id =
                              IF Truthy(reply_to_id) THEN reply_to_id ELSE Absent]
    ELSE [NoParams EXCEPT !.media_type =
                              IF Truthy(image_url) THEN "IMAGE" ELSE "TEXT",
                          !.text = text,
                          !.image_url =
                              IF Truthy(image_url) THEN image_url ELSE Absent,
                          !.reply_to_id =
                              IF Truthy(reply_to_id) THEN reply_to_id ELSE Absent]

PublishParams(creation_id) == [NoParams EXCEPT !.creation_id = creation_id]

\* time.sleep(2) of _publish_container.
SleepSeconds == 2

\* PublishDelay sleeping between posts only: not before the first publish.
PublishDelay_NotBeforeFirst(post) == IF post = "root" THEN 0 ELSE SleepSeconds

\* The blocking delay _publish_container makes before its request, whatever
\* the post it publishes.
PublishDelay(post) == SleepSeconds

\* One entry of the request log, with the seconds the function slept before
\* sending it.  post and idx say which post of the chain the
\* request is for: "root", "item" idx, "reply" idx, "citation".
Call(api, post, idx, params, outcome, ret) ==
    [api |-> api, post |-> post, idx |-> idx, user_id |-> user_id,
     params |-> params, outcome |-> outcome, ret |-> ret,
     slept |-> IF api = "publish" THEN PublishDelay(post) ELSE 0]

----------------------------------------------------------------------------
(* post_to_threads: its decisions *)

\* UseCarousel with "> 1" written as ">= 1".
UseCarousel_AnyImage == data.type = "single" /\ Len(image_urls) >= 1

\* data.get("type", "single") == "single" and len(image_urls) > 1
UseCarousel ==
    (IF data.type = Absent THEN "single" ELSE data.type) = "single"
    /\ Len(image_urls) > 1

MainImage == IF Len(image_urls) > 0 THEN image_urls[1] ELSE None

\* ReplyImage off by one: the reply takes the image before its own.
ReplyImage_OffByOne(i) == IF Len(image_urls) > i - 1 THEN image_urls[i] ELSE None

\* reply i here is enumerate's i + 1: image_urls[i+1] if len(image_urls) > i+1.
ReplyImage(i) == IF Len(image_urls) > i THEN image_urls[i + 1] ELSE None

\* HasReplies without the test of the type.
HasReplies_AnyType == Len(data.replies) > 0

HasReplies == data.type = "multi" /\ Len(data.replies) > 0

\* SourceText in the format of format_output and print_dry_run.
SourceText_SpaceBeforeColon == "출처 : " \o source_url

SourceText == "출처: " \o source_url

AfterRootPc == IF HasReplies THEN "reply_create" ELSE "citation_create"

----------------------------------------------------------------------------
Init ==
    /\ data \in Contents
    /\ image_urls \in ImageLists
    /\ source_url \in SourceUrls
    /\ pc = "lookup_user"
    /\ user_id = None
    /\ item_ids = <<>>
    /\ img_idx = 1
    /\ container_id = None
    /\ last_post_id = None
    /\ reply_idx = 1
    /\ cont_id = None
    /\ source_cont_id = None
    /\ calls = <<>>
    /\ result = "pending"
    /\ printed = "nothing"
    /\ content = [present |-> TRUE, type |-> data.type,
                  main_post |-> data.main_post,
                  replies_kind |-> "list", replies |-> data.replies]
    /\ DRY_RUN = FALSE
    /\ THREADS_ACCESS_TOKEN = "token"
    /\ valid = "True"
    /\ dry_run_printed = 0
    /\ archived = 0
    /\ run = 1
    /\ first_calls = <<>>
    /\ applied = NotApplied

Inputs == <<data, image_urls, source_url>>

\* return <value> from post_to_threads.
Return(value) == pc' = "returned" /\ result' = value

\* An exception leaves post_to_threads; run_pipeline does not catch it.
Raise == pc' = "crashed" /\ result' = "UnboundLocalError"

\* 1. Get User ID (me)
LookupUser ==
    /\ pc = "lookup_user"
    /\ \E outcome \in Outcomes :
        LET id == ReturnedId(outcome, FreshUserId) IN
        /\ calls' = Append(calls, Call("me", "me", 0, NoParams, outcome, id))
        /\ IF outcome \in {"http_error", "transport_error"}
           THEN /\ Return("False")
                /\ UNCHANGED user_id
           ELSE /\ user_id' = id
                /\ pc' = IF UseCarousel THEN "carousel_items" ELSE "root_create"
                /\ UNCHANGED result
    /\ UNCHANGED <<Inputs, RunVars, PipelineVars, item_ids, img_idx, container_id, last_post_id,
                   reply_idx, cont_id, source_cont_id, printed>>

\* CreateCarouselItem asking again for an item whose creation returned no id,
\* until it returns one.
CreateCarouselItem_RetryingFailed ==
    /\ pc = "carousel_items"
    /\ img_idx <= Len(image_urls)
    /\ \E outcome \in Outcomes :
        LET item_id == ReturnedId(outcome, FreshCreationId)
            params == CreateParams("", image_urls[img_idx], None, TRUE, <<>>)
        IN
        /\ calls' = Append(calls, Call("create", "item", img_idx, params, outcome, item_id))
        /\ IF HandlerRaises(outcome)
           THEN /\ Raise
                /\ UNCHANGED <<item_ids, img_idx>>
           ELSE IF ~Truthy(item_id)
           THEN UNCHANGED <<item_ids, img_idx, pc, result>>
           ELSE /\ item_ids' = Append(item_ids, item_id)
                /\ img_idx' = img_idx + 1
                /\ pc' = IF img_idx < Len(image_urls)
                         THEN pc ELSE "carousel_parent"
                /\ UNCHANGED result
    /\ UNCHANGED <<Inputs, RunVars, PipelineVars, user_id, container_id,
                   last_post_id, reply_idx, cont_id, source_cont_id, printed>>

\* 2-1. Create Item Containers: one turn of the loop
CreateCarouselItem ==
    /\ pc = "carousel_items"
    /\ img_idx <= Len(image_urls)
    /\ \E outcome \in Outcomes :
        LET item_id == ReturnedId(outcome, FreshCreationId)
            params == CreateParams("", image_urls[img_idx], None, TRUE, <<>>)
            ids == IF Truthy(item_id) THEN Append(item_ids, item_id) ELSE item_ids
        IN
        /\ calls' = Append(calls, Call("create", "item", img_idx, params, outcome, item_id))
        /\ IF HandlerRaises(outcome)
           THEN /\ Raise
                /\ UNCHANGED <<item_ids, img_idx>>
           ELSE /\ item_ids' = ids
                /\ img_idx' = img_idx + 1
                /\ IF img_idx < Len(image_urls)
                   THEN UNCHANGED <<pc, result>>
                   ELSE IF Len(ids) > 0
                        THEN pc' = "carousel_parent" /\ UNCHANGED result
                        ELSE Return("False")
    /\ UNCHANGED <<Inputs, RunVars, PipelineVars, user_id, container_id, last_post_id, reply_idx,
                   cont_id, source_cont_id, printed>>

\* RootParams handing the carousel parent its children in reverse order.
RootParams_ReversedChildren ==
    IF pc = "carousel_parent"
    THEN CreateParams(data.main_post, None, None, FALSE,
                      [j \in 1..Len(item_ids) |-> item_ids[Len(item_ids) + 1 - j]])
    ELSE CreateParams(data.main_post, MainImage, None, FALSE, <<>>)

\* The root's own container: the carousel parent or the standard container.
RootParams ==
    IF pc = "carousel_parent"
    THEN CreateParams(data.main_post, None, None, FALSE, item_ids)
    ELSE CreateParams(data.main_post, MainImage, None, FALSE, <<>>)

\* CreateRoot without "if not container_id: return False": the publish is
\* requested whatever the creation returned.
CreateRoot_PublishWithoutId ==
    /\ pc \in {"carousel_parent", "root_create"}
    /\ \E outcome \in Outcomes :
        LET id == ReturnedId(outcome, FreshCreationId) IN
        /\ calls' = Append(calls, Call("create", "root", 0, RootParams, outcome, id))
        /\ IF HandlerRaises(outcome)
           THEN Raise /\ UNCHANGED container_id
           ELSE /\ container_id' = id
                /\ pc' = "root_publish"
                /\ UNCHANGED result
    /\ UNCHANGED <<Inputs, RunVars, PipelineVars, user_id, item_ids, img_idx,
                   last_post_id, reply_idx, cont_id, source_cont_id, printed>>

\* 2-2. Create Carousel Container / Standard Single Image or Text
CreateRoot ==
    /\ pc \in {"carousel_parent", "root_create"}
    /\ \E outcome \in Outcomes :
        LET id == ReturnedId(outcome, FreshCreationId) IN
        /\ calls' = Append(calls, Call("create", "root", 0, RootParams, outcome, id))
        /\ IF HandlerRaises(outcome)
           THEN Raise /\ UNCHANGED container_id
           ELSE /\ container_id' = id
                /\ IF Truthy(id)
                   THEN pc' = "root_publish" /\ UNCHANGED result
                   ELSE Return("False")
    /\ UNCHANGED <<Inputs, RunVars, PipelineVars, user_id, item_ids, img_idx, last_post_id, reply_idx,
                   cont_id, source_cont_id, printed>>

\* Publish the root
PublishRoot ==
    /\ pc = "root_publish"
    /\ \E outcome \in Outcomes :
        LET main_post_id == ReturnedId(outcome, FreshPostId) IN
        /\ calls' = Append(calls, Call("publish", "root", 0,
                                       PublishParams(container_id), outcome, main_post_id))
        /\ IF HandlerRaises(outcome)
           THEN Raise /\ UNCHANGED last_post_id
           ELSE IF Truthy(main_post_id)
                THEN /\ last_post_id' = main_post_id
                     /\ pc' = AfterRootPc
                     /\ UNCHANGED result
                ELSE Return("False") /\ UNCHANGED last_post_id
    /\ UNCHANGED <<Inputs, RunVars, PipelineVars, user_id, item_ids, img_idx, container_id, reply_idx,
                   cont_id, source_cont_id, printed>>

\* ReplyParams with the root's container id in place of last_post_id.
ReplyParams_ToContainer(i) ==
    CreateParams(data.replies[i], ReplyImage(i), container_id, FALSE, <<>>)

\* The container of reply i is a reply to the last published post.
ReplyParams(i) ==
    CreateParams(data.replies[i], ReplyImage(i), last_post_id, FALSE, <<>>)

\* CreateReply trying the same reply again when its creation failed.
CreateReply_Retrying ==
    /\ pc = "reply_create"
    /\ \E outcome \in Outcomes :
        LET id == ReturnedId(outcome, FreshCreationId) IN
        /\ calls' = Append(calls, Call("create", "reply", reply_idx,
                                       ReplyParams(reply_idx), outcome, id))
        /\ IF HandlerRaises(outcome)
           THEN Raise /\ UNCHANGED cont_id
           ELSE /\ cont_id' = id
                /\ pc' = IF Truthy(id) THEN "reply_publish" ELSE "reply_create"
                /\ UNCHANGED result
    /\ UNCHANGED <<Inputs, RunVars, PipelineVars, user_id, item_ids, img_idx, container_id,
                   last_post_id, reply_idx, source_cont_id, printed>>

\* 3. Replies (if multi type): the create half of one turn of the loop
CreateReply ==
    /\ pc = "reply_create"
    /\ \E outcome \in Outcomes :
        LET id == ReturnedId(outcome, FreshCreationId) IN
        /\ calls' = Append(calls, Call("create", "reply", reply_idx,
                                       ReplyParams(reply_idx), outcome, id))
        /\ IF HandlerRaises(outcome)
           THEN Raise /\ UNCHANGED cont_id
           ELSE /\ cont_id' = id
                /\ pc' = IF Truthy(id) THEN "reply_publish" ELSE "citation_create"
                /\ UNCHANGED result
    /\ UNCHANGED <<Inputs, RunVars, PipelineVars, user_id, item_ids, img_idx, container_id,
                   last_post_id, reply_idx, source_cont_id, printed>>

\* AfterReplyPc leaving the loop after the first reply.
AfterReplyPc_StopsEarly(i) == "citation_create"

\* Where the loop goes after reply i was published.
AfterReplyPc(i) ==
    IF i < Len(data.replies) THEN "reply_create" ELSE "citation_create"

\* 3. Replies: the publish half of one turn of the loop
PublishReply ==
    /\ pc = "reply_publish"
    /\ \E outcome \in Outcomes :
        LET pub_id == ReturnedId(outcome, FreshPostId) IN
        /\ calls' = Append(calls, Call("publish", "reply", reply_idx,
                                       PublishParams(cont_id), outcome, pub_id))
        /\ IF HandlerRaises(outcome)
           THEN Raise /\ UNCHANGED <<last_post_id, reply_idx>>
           ELSE IF Truthy(pub_id)
                THEN /\ last_post_id' = pub_id
                     /\ reply_idx' = reply_idx + 1
                     /\ pc' = AfterReplyPc(reply_idx)
                     /\ UNCHANGED result
                ELSE /\ pc' = "citation_create"
                     /\ UNCHANGED <<last_post_id, reply_idx, result>>
    /\ UNCHANGED <<Inputs, RunVars, PipelineVars, user_id, item_ids, img_idx, container_id, cont_id,
                   source_cont_id, printed>>

CitationParams == CreateParams(SourceText, None, last_post_id, FALSE, <<>>)

\* 4. Source Link (Always last reply): its container
CreateCitation ==
    /\ pc = "citation_create"
    /\ \E outcome \in Outcomes :
        LET id == ReturnedId(outcome, FreshCreationId) IN
        /\ calls' = Append(calls, Call("create", "citation", 0,
                                       CitationParams, outcome, id))
        /\ IF HandlerRaises(outcome)
           THEN Raise /\ UNCHANGED source_cont_id
           ELSE /\ source_cont_id' = id
                /\ IF Truthy(id)
                   THEN pc' = "citation_publish" /\ UNCHANGED result
                   ELSE Return("True")
    /\ UNCHANGED <<Inputs, RunVars, PipelineVars, user_id, item_ids, img_idx, container_id,
                   last_post_id, reply_idx, cont_id, printed>>

\* What post_to_threads returns once the citation's publish call came back.
CitationResult(post_id) == "True"

\* 4. Source Link: its publish call, whose result is dropped
PublishCitation ==
    /\ pc = "citation_publish"
    /\ \E outcome \in Outcomes :
        LET post_id == ReturnedId(outcome, FreshPostId) IN
        /\ calls' = Append(calls, Call("publish", "citation", 0,
                                       PublishParams(source_cont_id), outcome, post_id))
        /\ IF HandlerRaises(outcome)
           THEN Raise
           ELSE Return(CitationResult(post_id))
    /\ UNCHANGED <<Inputs, RunVars, PipelineVars, user_id, item_ids, img_idx, container_id,
                   last_post_id, reply_idx, cont_id, source_cont_id, printed>>

\* run_pipeline: "if success: ... else: ..." on what post_to_threads returned
ReportOutcome ==
    /\ pc = "returned"
    /\ printed' = IF result = "True" THEN "published" ELSE "failed"
    /\ pc' = "done"
    /\ UNCHANGED <<Inputs, RunVars, PipelineVars, user_id, item_ids, img_idx, container_id,
                   last_post_id, reply_idx, cont_id, source_cont_id, calls,
                   result>>

Next ==
    \/ LookupUser
    \/ CreateCarouselItem
    \/ CreateRoot
    \/ PublishRoot
    \/ CreateReply
    \/ PublishReply
    \/ CreateCitation
    \/ PublishCitation
    \/ ReportOutcome

Spec == Init /\ [][Next]_vars

----------------------------------------------------------------------------
(* run_pipeline around post_to_threads *)

\* What the content generator can hand to run_pipeline: None, or a JSON
\* object.  Of an object the model keeps the three keys the program reads;
\* each may be missing, and replies may hold something that is not a list.
RawContents ==
    { [present |-> FALSE, type |-> Absent, main_post |-> Absent,
       replies_kind |-> "absent", replies |-> <<>>] }
    \cup
    { [present |-> TRUE, type |-> t, main_post |-> m,
       replies_kind |-> "absent", replies |-> <<>>] :
        t \in {Absent, "single", "multi", "thread"}, m \in {Absent, "R"} }
    \cup
    { [present |-> TRUE, type |-> t, main_post |-> m,
       replies_kind |-> "not_list", replies |-> <<>>] :
        t \in {Absent, "single", "multi", "thread"}, m \in {Absent, "R"} }
    \cup
    { [present |-> TRUE, type |-> t, main_post |-> m,
       replies_kind |-> "list", replies |-> [i \in 1..k |-> ReplyText(i)]] :
        t \in {Absent, "single", "multi", "thread"}, m \in {Absent, "R"},
        k \in 0..MaxReplies }

\* Python's "not content": None, or a dict without any key.
ContentFalsy(c) ==
    \/ ~c.present
    \/ c.type = Absent /\ c.main_post = Absent /\ c.replies_kind = "absent"

\* validate_content without the isinstance check on replies.
validate_content_AnyReplies(c) ==
    IF ContentFalsy(c) THEN FALSE
    ELSE IF c.type = Absent \/ c.main_post = Absent THEN FALSE
    ELSE IF c.type \notin {"single", "multi"} THEN FALSE
    ELSE IF c.type = "multi" /\ c.replies_kind = "absent" THEN FALSE
    ELSE TRUE

validate_content(c) ==
    IF ContentFalsy(c) THEN FALSE
    ELSE IF c.type = Absent \/ c.main_post = Absent THEN FALSE
    ELSE IF c.type \notin {"single", "multi"} THEN FALSE
    ELSE IF c.type = "multi"
            /\ (c.replies_kind = "absent" \/ c.replies_kind # "list") THEN FALSE
    ELSE TRUE

\* The content as post_to_threads reads it: data.get("type"),
\* data.get("main_post", ""), data.get("replies", []).  A replies value that
\* is not a list is never read for content that passed validation.
AsData(c) ==
    [type |-> c.type,
     main_post |-> IF c.main_post = Absent THEN "" ELSE c.main_post,
     replies |-> c.replies]

AccessTokens == {None, "token"}

PipelineInit ==
    /\ content \in RawContents
    /\ data = AsData(content)
    /\ image_urls \in ImageLists
    /\ source_url \in SourceUrls
    /\ DRY_RUN \in BOOLEAN
    /\ THREADS_ACCESS_TOKEN \in AccessTokens
    /\ pc = "validate"
    /\ valid = "pending"
    /\ dry_run_printed = 0
    /\ archived = 0
    /\ user_id = None
    /\ item_ids = <<>>
    /\ img_idx = 1
    /\ container_id = None
    /\ last_post_id = None
    /\ reply_idx = 1
    /\ cont_id = None
    /\ source_cont_id = None
    /\ calls = <<>>
    /\ result = "pending"
    /\ printed = "nothing"
    /\ run = 1
    /\ first_calls = <<>>
    /\ applied = NotApplied

PostVars ==
    <<user_id, item_ids, img_idx, container_id, last_post_id, reply_idx,
      cont_id, source_cont_id, calls, result, printed>>

\* AfterValidatePc going on to the output step whatever validation found.
AfterValidatePc_Ignored(ok) == "output"

\* if not content or not validate_content(content): ... return
AfterValidatePc(ok) == IF ok THEN "output" ELSE "ended"

\* run_pipeline: the check of the generated content
ValidateContent ==
    /\ pc = "validate"
    /\ LET ok == ~ContentFalsy(content) /\ validate_content(content) IN
        /\ valid' = IF ok THEN "True" ELSE "False"
        /\ pc' = AfterValidatePc(ok)
    /\ UNCHANGED <<Inputs, RunVars, PostVars, content, DRY_RUN, THREADS_ACCESS_TOKEN,
                   dry_run_printed, archived>>

\* UsesDryRun looking at DRY_RUN only.
UsesDryRun_IgnoresToken == DRY_RUN

\* Which output the run takes: print_dry_run, or post_to_threads.
UsesDryRun == DRY_RUN \/ ~Truthy(THREADS_ACCESS_TOKEN)

\* Step 4: Output
OutputStep ==
    /\ pc = "output"
    /\ IF UsesDryRun
       THEN /\ dry_run_printed' = dry_run_printed + 1
            /\ pc' = "archive"
       ELSE /\ pc' = "lookup_user"
            /\ UNCHANGED dry_run_printed
    /\ UNCHANGED <<Inputs, RunVars, PostVars, content, DRY_RUN, THREADS_ACCESS_TOKEN,
                   valid, archived>>

\* Step 5: Archive, after the dry run or after the report on post_to_threads
SaveArchive ==
    /\ pc \in {"archive", "done"}
    /\ archived' = archived + 1
    /\ pc' = "ended"
    /\ UNCHANGED <<Inputs, RunVars, PostVars, content, DRY_RUN, THREADS_ACCESS_TOKEN,
                   valid, dry_run_printed>>

PipelineNext ==
    \/ ValidateContent
    \/ OutputStep
    \/ SaveArchive
    \/ Next

PipelineSpec == PipelineInit /\ [][PipelineNext]_vars

----------------------------------------------------------------------------
(* Reading the request log *)

CallIdx == 1..Len(calls)

IsContainerCall(c) == c.api \in {"create", "publish"}

\* The call came back with an id / without one (None, or an exception).
Succeeded(c) == Truthy(c.ret)
Failed(c) == ~Truthy(c.ret)

Terminated == pc \in {"returned", "done", "crashed"}

RootPublished ==
    \E n \in CallIdx :
        calls[n].api = "publish" /\ calls[n].post = "root" /\ Succeeded(calls[n])

\* The post_id of the last publish before call n that succeeded, None if none.
LastPublishedBefore(n) ==
    LET S == { m \in 1..(n - 1) : calls[m].api = "publish" /\ Succeeded(calls[m]) }
    IN  IF S = {} THEN None
        ELSE calls[CHOOSE m \in S : \A k \in S : k <= m].ret

\* The root's container could not be created or published at call n: the
\* root's own create or publish failed, or (carousel) an item creation raised,
\* or the last item creation left no item at all.
RootFailedAt(n) ==
    \/ calls[n].post = "root" /\ Failed(calls[n])
    \/ calls[n].post = "item" /\ calls[n].outcome = "transport_error"
    \/ /\ calls[n].post = "item"
       /\ calls[n].idx = Len(image_urls)
       /\ \A m \in 1..n : calls[m].post = "item" => Failed(calls[m])

----------------------------------------------------------------------------
(* C1: if the root's container creation or publish fails, carousel path     *)
(* included, post_to_threads reports failure (returns False) and no create  *)
(* or publish call follows in the run.                                      *)
C1_RootFailureAborts ==
    \A n \in CallIdx :
        RootFailedAt(n) => n = Len(calls) /\ result = "False"

(* C2: in a Multi run whose root is published, once reply i fails at        *)
(* creation or at publish no call is made for a later reply, and the run    *)
(* still creates the citation container, as a reply to the last post        *)
(* published.                                                               *)
C2_ReplyFailureStillCites ==
    Terminated =>
        \A n \in CallIdx :
            (calls[n].post = "reply" /\ Failed(calls[n])) =>
                /\ \A m \in CallIdx :
                       calls[m].post = "reply" => calls[m].idx <= calls[n].idx
                /\ n < Len(calls)
                /\ calls[n + 1].api = "create"
                /\ calls[n + 1].post = "citation"
                /\ calls[n + 1].params.reply_to_id = LastPublishedBefore(n)

(* C3: in every run whose root is published, exactly one citation           *)
(* container creation is attempted, after every reply call of the run, and  *)
(* only the citation's own publish may follow it.                           *)
C3_CitationAlwaysLast ==
    (Terminated /\ RootPublished) =>
        \E n \in CallIdx :
            /\ calls[n].api = "create" /\ calls[n].post = "citation"
            /\ \A m \in CallIdx :
                   (calls[m].api = "create" /\ calls[m].post = "citation") => m = n
            /\ \A m \in CallIdx : calls[m].post = "reply" => m < n
            /\ \A m \in CallIdx : m > n => calls[m].post = "citation"

(* C4: every reply container and the citation container is created with   *)
(* reply_to_id equal to the post_id of the most recent successful publish   *)
(* of the run (the root's for reply 1, reply i-1's for reply i), which is   *)
(* a post_id and never a creation_id; root and carousel-item containers     *)
(* carry no reply_to_id.                                                    *)
C4_ReplyToIsLastPublishedPost ==
    \A n \in CallIdx :
        calls[n].api = "create" =>
            LET c == calls[n]
                to == c.params.reply_to_id
            IN  IF c.post \in {"reply", "citation"}
                THEN /\ to # Absent
                     /\ to = LastPublishedBefore(n)
                     /\ IsPostId(to)
                     /\ ~IsCreationId(to)
                     /\ c.post = "reply" =>
                            \E m \in 1..(n - 1) :
                                /\ calls[m].api = "publish"
                                /\ calls[m].ret = to
                                /\ IF c.idx = 1
                                   THEN calls[m].post = "root"
                                   ELSE /\ calls[m].post = "reply"
                                        /\ calls[m].idx = c.idx - 1
                ELSE to = Absent

C4_Witness ==
    /\ \E n \in CallIdx :
           calls[n].api = "create" /\ calls[n].post = "reply" /\ calls[n].idx = 2
    /\ \E n \in CallIdx :
           calls[n].api = "create" /\ calls[n].post = "citation"

----------------------------------------------------------------------------
(* The outcome of a finished run, read off the request log *)

RECURSIVE CountPublished(_)
CountPublished(n) ==
    IF n = 0 THEN 0
    ELSE CountPublished(n - 1)
         + (IF calls[n].api = "publish" /\ Succeeded(calls[n]) THEN 1 ELSE 0)

PublishedCount == CountPublished(Len(calls))

\* Replies the chain is to hold: those of Multi content.
ReplyCount == IF data.type = "multi" THEN Len(data.replies) ELSE 0

\* 1 + len(replies) + 1 posts for Multi, 2 for Single.
ExpectedPosts == 1 + ReplyCount + 1

FullySucceeded == PublishedCount = ExpectedPosts
PartiallySucceeded == 0 < PublishedCount /\ PublishedCount < ExpectedPosts
Aborted == PublishedCount = 0

CitationFailed ==
    \E n \in CallIdx : calls[n].post = "citation" /\ Failed(calls[n])

(* C5: the result post_to_threads reports tells the three outcomes apart:  *)
(* full success, partial success and total abort each yield a different    *)
(* result.  Full success yields True and an abort False, so a result tells *)
(* them apart only if True is kept for full success and False for abort.   *)
C5_OutcomesDistinguished ==
    pc = "done" =>
        /\ result = "True" <=> FullySucceeded
        /\ result = "False" <=> Aborted

(* C6: if the citation fails to be created or published after the root was *)
(* published, the run is reported as partially successful, not as a full   *)
(* success.                                                                 *)
C6_CitationFailureReportedPartial ==
    (pc = "done" /\ RootPublished /\ CitationFailed) =>
        result # "True" /\ printed # "published"

----------------------------------------------------------------------------
AllOk == \A n \in CallIdx : calls[n].outcome = "ok"

IsChainCall(c) == IsContainerCall(c) /\ c.post # "item"

\* The create and publish calls of the chain's posts (carousel items aside).
ChainCalls == SelectSeq(calls, IsChainCall)

(* C7: when every call succeeds the run publishes 1 + len(replies) + 1      *)
(* posts for Multi and 2 for Single: root, reply 1..k in order with their   *)
(* own texts, then the citation, each post published (with the creation_id  *)
(* its create returned) before the next post's container is created.        *)
C7_FullChainInOrder ==
    AllOk =>
        LET P == ChainCalls
            N == IF data.type = "multi" THEN Len(data.replies) + 2 ELSE 2
        IN  /\ Len(P) <= 2 * N
            /\ \A j \in 1..Len(P) :
                   LET m == (j + 1) \div 2 IN
                   /\ IF m = 1 THEN P[j].post = "root"
                      ELSE IF m = N THEN P[j].post = "citation"
                      ELSE P[j].post = "reply" /\ P[j].idx = m - 1
                   /\ IF j % 2 = 1
                      THEN /\ P[j].api = "create"
                           /\ P[j].params.text =
                                  IF m = 1 THEN data.main_post
                                  ELSE IF m = N THEN "출처: " \o source_url
                                  ELSE data.replies[m - 1]
                      ELSE /\ P[j].api = "publish"
                           /\ P[j].params.creation_id = P[j - 1].ret
                           /\ IsCreationId(P[j].params.creation_id)
            /\ pc \in {"returned", "done"} =>
                   /\ Len(P) = 2 * N
                   /\ PublishedCount = N
                   /\ result = "True"

C7_Witness ==
    /\ pc = "done"
    /\ AllOk
    /\ data.type = "multi"
    /\ Len(data.replies) = 2
    /\ PublishedCount = 4

----------------------------------------------------------------------------
IsItemCall(c) == c.post = "item"

\* The carousel-item requests of the run, in the order they were made.
ItemCalls == SelectSeq(calls, IsItemCall)

RECURSIVE ReturnedIds(_)
\* The ids the calls of a sequence returned, in order, failed calls left out.
ReturnedIds(cs) ==
    IF cs = <<>> THEN <<>>
    ELSE IF Succeeded(Head(cs)) THEN <<Head(cs).ret>> \o ReturnedIds(Tail(cs))
    ELSE ReturnedIds(Tail(cs))

(* C8: for Single content with more than one image the root is a carousel: *)
(* the item containers are requested one per image in image order, before   *)
(* anything else; the parent is a CAROUSEL container carrying the root text *)
(* and the item ids, in that order, as children; and no other container of  *)
(* the run, the citation included, carries an image.                        *)
C8_CarouselRoot ==
    (data.type = "single" /\ Len(image_urls) > 1) =>
        LET I == ItemCalls IN
        /\ Len(I) <= Len(image_urls)
        /\ \A j \in 1..Len(I) :
               /\ I[j].api = "create"
               /\ I[j].idx = j
               /\ I[j].params.media_type = "IMAGE"
               /\ I[j].params.is_carousel_item = "true"
               /\ I[j].params.image_url = image_urls[j]
        /\ \A n \in CallIdx :
               calls[n].post = "item" =>
                   \A m \in 1..(n - 1) : calls[m].post \in {"me", "item"}
        /\ \A n \in CallIdx :
               (calls[n].api = "create" /\ calls[n].post = "root") =>
                   /\ Len(I) = Len(image_urls)
                   /\ calls[n].params.media_type = "CAROUSEL"
                   /\ calls[n].params.text = data.main_post
                   /\ calls[n].params.children = Join(ReturnedIds(I))
                   /\ AllOk => Len(ReturnedIds(I)) = Len(image_urls)
        /\ \A n \in CallIdx :
               calls[n].post # "item" => calls[n].params.image_url = Absent

C8_Witness ==
    /\ data.type = "single"
    /\ Len(image_urls) = 3
    /\ pc = "done"
    /\ AllOk
    /\ \E n \in CallIdx :
           /\ calls[n].post = "root"
           /\ calls[n].params.media_type = "CAROUSEL"
           /\ Len(ReturnedIds(ItemCalls)) = 3
    /\ \E n \in CallIdx : calls[n].post = "citation" /\ calls[n].api = "publish"

(* C9: off the carousel path, with k replies and n images: the root         *)
(* container carries images[0] if n >= 1 and no image otherwise, reply i    *)
(* (1-based) carries images[i] if i < n and no image otherwise, no          *)
(* container carries an image of index > k, and the citation container      *)
(* carries none.                                                            *)
C9_OneImagePerPost ==
    ~(data.type = "single" /\ Len(image_urls) > 1) =>
        \A c \in CallIdx :
            calls[c].api = "create" =>
                LET q == calls[c]
                    img == q.params.image_url
                    n == Len(image_urls)
                    k == Len(data.replies)
                IN  /\ q.post \in {"root", "reply", "citation"}
                    /\ q.post = "root" =>
                           img = IF n >= 1 THEN image_urls[1] ELSE Absent
                    /\ q.post = "reply" =>
                           img = IF q.idx < n THEN image_urls[q.idx + 1] ELSE Absent
                    /\ q.post = "citation" => img = Absent
                    /\ q.params.media_type = IF img = Absent THEN "TEXT" ELSE "IMAGE"
                    /\ \A j \in 1..n : j > k + 1 => img # image_urls[j]

\* One reply and three images: images[1] goes to the reply, images[2] to nobody.
C9_Witness ==
    /\ data.type = "multi"
    /\ Len(data.replies) = 1
    /\ Len(image_urls) = 3
    /\ pc = "done"
    /\ \E c \in CallIdx :
           /\ calls[c].post = "reply" /\ calls[c].idx = 1
           /\ calls[c].params.image_url = image_urls[2]
    /\ \E c \in CallIdx :
           /\ calls[c].post = "citation" /\ calls[c].api = "create"
           /\ calls[c].params.media_type = "TEXT"

(* C10: the carousel path is taken exactly when the content is Single and   *)
(* there is more than one image: never for Multi, never for Single with     *)
(* one image; and with no image every container is a TEXT container and    *)
(* the empty list makes no run fail.                                        *)
C10_CarouselIffSingleManyImages ==
    LET single_many == data.type = "single" /\ Len(image_urls) > 1 IN
    /\ \A n \in CallIdx :
           ( \/ calls[n].post = "item"
             \/ calls[n].params.media_type = "CAROUSEL"
             \/ calls[n].params.is_carousel_item # Absent
             \/ calls[n].params.children # Absent ) => single_many
    /\ \A n \in CallIdx :
           ( /\ calls[n].api = "create"
             /\ \A m \in 1..(n - 1) : calls[m].api # "create" ) =>
               (calls[n].post = "item" <=> single_many)
    /\ Len(image_urls) = 0 =>
           /\ \A n \in CallIdx :
                  calls[n].api = "create" => calls[n].params.media_type = "TEXT"
           /\ pc = "crashed" => calls[Len(calls)].outcome = "transport_error"
           /\ (AllOk /\ pc \in {"returned", "done"}) => result = "True"

C10_Witness ==
    /\ data.type = "single"
    /\ Len(image_urls) = 1
    /\ pc = "done"
    /\ PublishedCount = 2
    /\ \E n \in CallIdx :
           /\ calls[n].api = "create" /\ calls[n].post = "root"
           /\ calls[n].params.media_type = "IMAGE"

----------------------------------------------------------------------------
(* C11: reply containers are attempted only for Multi content.  For Single  *)
(* content, non-empty replies included (validation lets them pass), and for *)
(* Multi content without replies, the call after the root's successful      *)
(* publish is the creation of the citation, anchored to the root's post_id. *)
C11_RepliesOnlyForMulti ==
    /\ \A n \in CallIdx : calls[n].post = "reply" => data.type = "multi"
    /\ (data.type # "multi" \/ Len(data.replies) = 0) =>
           \A n \in CallIdx :
               ( /\ calls[n].api = "publish"
                 /\ calls[n].post = "root"
                 /\ Succeeded(calls[n]) ) =>
                   IF n = Len(calls)
                   THEN pc = "citation_create"
                   ELSE /\ calls[n + 1].api = "create"
                        /\ calls[n + 1].post = "citation"
                        /\ calls[n + 1].params.reply_to_id = calls[n].ret

\* Single content with two replies passed validation and went from the root
\* to the citation.
C11_Witness ==
    /\ content.type = "single"
    /\ content.replies_kind = "list"
    /\ Len(content.replies) = 2
    /\ valid = "True"
    /\ pc = "ended"
    /\ Len(calls) = 5
    /\ calls[3].post = "root" /\ calls[3].api = "publish"
    /\ calls[4].post = "citation"
    /\ calls[4].params.reply_to_id = calls[3].ret

(* C12: no create or publish call is made without a resolved user id: when *)
(* the /me lookup yields no id (transport error, non-2xx, or a response     *)
(* without id) the run reports failure and no container call follows.       *)
C12_NoCallWithoutUserId ==
    /\ \A n \in CallIdx : IsContainerCall(calls[n]) => Truthy(calls[n].user_id)
    /\ \A n \in CallIdx :
           (calls[n].api = "me" /\ Failed(calls[n])) =>
               n = Len(calls) /\ result = "False"

(* C13: on every non-2xx response and every network error, a transport     *)
(* error before any response exists included, _create_container and        *)
(* _publish_container return None and no exception reaches the chain       *)
(* publisher.                                                               *)
C13_NoExceptionEscapes ==
    \A n \in CallIdx :
        ( /\ IsContainerCall(calls[n])
          /\ calls[n].outcome \in {"http_error", "transport_error"} ) =>
            /\ calls[n].ret = None
            /\ n = Len(calls) => (pc # "crashed" /\ result # "UnboundLocalError")

(* C14: no automatic retry: no post has two container-creation requests,   *)
(* no creation_id is published twice, publish is only called with the id a *)
(* successful create of the same post returned earlier in the run, and a   *)
(* post whose creation or publish failed gets no further request.          *)
C14_NoRetry ==
    /\ \A n, m \in CallIdx :
           ( /\ n # m
             /\ calls[n].api = calls[m].api
             /\ IsContainerCall(calls[n]) ) =>
               /\ <<calls[n].post, calls[n].idx>> # <<calls[m].post, calls[m].idx>>
               /\ calls[n].api = "publish" =>
                      calls[n].params.creation_id # calls[m].params.creation_id
    /\ \A n \in CallIdx :
           calls[n].api = "publish" =>
               \E m \in 1..(n - 1) :
                   /\ calls[m].api = "create"
                   /\ calls[m].post = calls[n].post
                   /\ calls[m].idx = calls[n].idx
                   /\ Succeeded(calls[m])
                   /\ calls[m].ret = calls[n].params.creation_id
    /\ \A n, m \in CallIdx :
           ( /\ n < m
             /\ IsContainerCall(calls[n])
             /\ Failed(calls[n]) ) =>
               <<calls[n].post, calls[n].idx>> # <<calls[m].post, calls[m].idx>>

\* Reply 1's creation failed and the run went on to the citation and ended.
C14_Witness ==
    /\ pc = "done"
    /\ \E n \in CallIdx :
           /\ calls[n].api = "create" /\ calls[n].post = "reply"
           /\ Failed(calls[n])
    /\ \E n \in CallIdx :
           /\ calls[n].api = "publish" /\ calls[n].post = "citation"
           /\ Failed(calls[n])

(* C15: validate_content returns False, and raises nothing, for content    *)
(* that is absent or empty, that lacks the type or the main_post key, whose *)
(* type is neither single nor multi, or whose type is multi with a replies *)
(* value that is not a list.                                               *)
C15_ValidateRejects ==
    LET rejected ==
            \/ ~content.present
            \/ ( /\ content.type = Absent
                 /\ content.main_post = Absent
                 /\ content.replies_kind = "absent" )
            \/ content.type = Absent
            \/ content.main_post = Absent
            \/ content.type \notin {"single", "multi"}
            \/ (content.type = "multi" /\ content.replies_kind = "not_list")
    IN  (pc # "validate" /\ rejected) => valid = "False"

C15_Witness ==
    /\ content.present
    /\ content.type = "multi"
    /\ content.main_post = "R"
    /\ content.replies_kind = "not_list"
    /\ valid = "False"

(* C16: when the generated content is absent or fails validation,          *)
(* run_pipeline ends the run with no call to the platform, no dry-run      *)
(* print and no archive.                                                   *)
C16_InvalidContentEndsRun ==
    (pc # "validate" /\ (ContentFalsy(content) \/ ~validate_content(content))) =>
        /\ pc = "ended"
        /\ calls = <<>>
        /\ dry_run_printed = 0
        /\ archived = 0

\* Production mode with a token, and content of an unknown type.
C16_Witness ==
    /\ pc = "ended"
    /\ valid = "False"
    /\ content.present
    /\ content.type = "thread"
    /\ ~DRY_RUN
    /\ THREADS_ACCESS_TOKEN = "token"
    /\ calls = <<>>

(* C17: every publish request, the run's first and the citation's          *)
(* included, is preceded inside the same _publish_container call by the    *)
(* fixed blocking delay.                                                   *)
C17_DelayBeforeEveryPublish ==
    \A n \in CallIdx :
        calls[n].api = "publish" => calls[n].slept = 2

C17_Witness ==
    /\ \E n \in CallIdx : calls[n].api = "publish" /\ calls[n].post = "root"
    /\ \E n \in CallIdx : calls[n].api = "publish" /\ calls[n].post = "reply"
    /\ \E n \in CallIdx : calls[n].api = "publish" /\ calls[n].post = "citation"

(* C18: carousel-item containers are only created: no publish request      *)
(* carries an item's creation_id, an item request carries neither text nor *)
(* reply_to_id, and a carousel run publishes one container for the root,   *)
(* the parent that carries the root text.                                  *)
C18_ItemsNeverPublished ==
    /\ \A n \in CallIdx :
           calls[n].post = "item" =>
               /\ calls[n].api = "create"
               /\ calls[n].params.text = Absent
               /\ calls[n].params.reply_to_id = Absent
    /\ \A n, m \in CallIdx :
           (calls[n].api = "publish" /\ calls[m].post = "item") =>
               calls[n].params.creation_id # calls[m].ret
    /\ (ItemCalls # <<>>) =>
           \A n \in CallIdx :
               (calls[n].api = "publish" /\ calls[n].post = "root") =>
                   /\ \A m \in CallIdx :
                          (calls[m].api = "publish" /\ calls[m].post = "root") => m = n
                   /\ calls[n - 1].api = "create"
                   /\ calls[n - 1].params.media_type = "CAROUSEL"
                   /\ calls[n - 1].params.text = data.main_post
                   /\ calls[n - 1].ret = calls[n].params.creation_id

C18_Witness ==
    /\ pc = "done"
    /\ Len(ItemCalls) = 3
    /\ Len(ReturnedIds(ItemCalls)) = 2
    /\ \E n \in CallIdx :
           /\ calls[n].api = "publish" /\ calls[n].post = "root"
           /\ Succeeded(calls[n])

(* C19: on the carousel path a failed item creation does not stop the      *)
(* creation of the remaining items; the parent is created with exactly the *)
(* ids of the items that succeeded, in image order; and the run ends       *)
(* before creating a parent exactly when no item succeeded.                *)
C19_PartialCarousel ==
    (data.type = "single" /\ Len(image_urls) > 1) =>
        /\ \A n \in CallIdx :
               ( /\ calls[n].post = "item"
                 /\ Failed(calls[n])
                 /\ calls[n].idx < Len(image_urls) ) =>
                   \/ n = Len(calls) /\ pc = "carousel_items"
                   \/ n < Len(calls) /\ calls[n + 1].post = "item"
                                     /\ calls[n + 1].idx = calls[n].idx + 1
        /\ \A n \in CallIdx :
               (calls[n].api = "create" /\ calls[n].post = "root") =>
                   calls[n].params.children = Join(ReturnedIds(ItemCalls))
        /\ (Terminated /\ ItemCalls # <<>>) =>
               ( (\A n \in CallIdx : calls[n].post # "root")
                   <=> ReturnedIds(ItemCalls) = <<>> )

(* C20: the text of the citation container is exactly "출처: " followed by  *)
(* the source_url, for every source_url and both kinds of content.         *)
C20_CitationText ==
    \A n \in CallIdx :
        (calls[n].api = "create" /\ calls[n].post = "citation") =>
            calls[n].params.text = "출처: " \o source_url

C20_Witness ==
    /\ source_url = "http://y"
    /\ data.type = "multi"
    /\ \E n \in CallIdx :
           /\ calls[n].api = "create" /\ calls[n].post = "citation"
           /\ calls[n].params.text = "출처: http://y"

----------------------------------------------------------------------------
(* Two consecutive calls of post_to_threads on the same arguments *)

\* NewItemIds keeping the list of the call before, as a list shared between
\* calls would.
NewItemIds_Kept == item_ids

\* item_ids = []: the list of a call is made inside the call.
NewItemIds == <<>>

\* After a first call whose requests all succeeded, the caller invokes
\* post_to_threads again with the same arguments: every local of the function
\* is new, and no state of the module or of an object outlives the first
\* call.  The platform keeps what the first call created.
StartSecondRun ==
    /\ pc = "done"
    /\ run = 1
    /\ AllOk
    /\ run' = 2
    /\ first_calls' = calls
    /\ calls' = <<>>
    /\ pc' = "lookup_user"
    /\ user_id' = None
    /\ item_ids' = NewItemIds
    /\ img_idx' = 1
    /\ container_id' = None
    /\ last_post_id' = None
    /\ reply_idx' = 1
    /\ cont_id' = None
    /\ source_cont_id' = None
    /\ result' = "pending"
    /\ printed' = "nothing"
    /\ UNCHANGED <<Inputs, PipelineVars, applied>>

TwoRunNext ==
    \/ Next
    \/ StartSecondRun

TwoRunSpec == Init /\ [][TwoRunNext]_vars

\* What a request asks for, the ids it carries left out.
Shape(c) ==
    [api |-> c.api, post |-> c.post, idx |-> c.idx,
     media_type |-> c.params.media_type, text |-> c.params.text,
     image_url |-> c.params.image_url,
     is_carousel_item |-> c.params.is_carousel_item,
     has_children |-> c.params.children # Absent,
     has_reply_to_id |-> c.params.reply_to_id # Absent,
     has_creation_id |-> c.params.creation_id # Absent]

\* The ids the first call's requests returned.
FirstRunIds ==
    { first_calls[m].ret : m \in { k \in 1..Len(first_calls) :
                                     IsContainerCall(first_calls[k]) } }

(* C21: two consecutive runs of post_to_threads on the same content, images *)
(* and source_url are independent and not idempotent.  With all calls       *)
(* succeeding the second run makes the whole sequence of create and publish *)
(* requests again, request for request what the first run asked for, and    *)
(* publishes a second chain of posts with ids of its own.  Nothing of the   *)
(* first run enters the second: every id a request of the second run        *)
(* carries is one an earlier request of the second run returned.            *)
C21_RunsIndependentNotIdempotent ==
    run = 2 =>
        /\ \A n \in CallIdx :
            /\ calls[n].params.creation_id # Absent =>
                   n > 1 /\ calls[n].params.creation_id = calls[n - 1].ret
            /\ calls[n].params.reply_to_id # Absent =>
                   calls[n].params.reply_to_id = LastPublishedBefore(n)
            /\ calls[n].params.children # Absent =>
                   calls[n].params.children = Join(ReturnedIds(ItemCalls))
            /\ (IsContainerCall(calls[n]) /\ Succeeded(calls[n])) =>
                   calls[n].ret \notin FirstRunIds
        /\ AllOk =>
            /\ Len(calls) <= Len(first_calls)
            /\ \A n \in CallIdx : Shape(calls[n]) = Shape(first_calls[n])
        /\ (AllOk /\ pc = "done") =>
            /\ Len(calls) = Len(first_calls)
            /\ PublishedCount = ExpectedPosts

\* Both runs went through with a carousel root, and both with a reply chain.
C21_Witness ==
    /\ run = 2
    /\ pc = "done"
    /\ AllOk
    /\ Len(first_calls) = Len(calls)
    /\ PublishedCount = ExpectedPosts
    /\ \/ Len(ItemCalls) = 3
       \/ ReplyCount = 2 /\ Len(image_urls) = 3

----------------------------------------------------------------------------
(* Functions applied on their own: format_output and _create_container *)

\* format_output with "multi" as the default of the type.
format_output_DefaultMulti(c, image_url, url) ==
    [type |-> IF c.type = Absent THEN "multi" ELSE c.type,
     main_post |-> [text |-> IF c.main_post = Absent THEN "" ELSE c.main_post,
                    image_url |-> image_url],
     replies_kind |-> IF c.replies_kind = "absent" THEN "list" ELSE c.replies_kind,
     replies |-> c.replies,
     source_reply |-> "출처 : " \o url]

\* format_output(data, image_url, source_url) on a dict c:
\* data.get("type", "single"), data.get("main_post", ""),
\* data.get("replies", []).
format_output(c, image_url, url) ==
    [type |-> IF c.type = Absent THEN "single" ELSE c.type,
     main_post |-> [text |-> IF c.main_post = Absent THEN "" ELSE c.main_post,
                    image_url |-> image_url],
     replies_kind |-> IF c.replies_kind = "absent" THEN "list" ELSE c.replies_kind,
     replies |-> c.replies,
     source_reply |-> "출처 : " \o url]

\* The dicts a function can be given as data.
DataDicts == { c \in RawContents : c.present }

PureInit ==
    /\ content \in DataDicts
    /\ data = AsData(content)
    /\ image_urls \in ImageLists
    /\ source_url \in SourceUrls
    /\ pc = "apply"
    /\ DRY_RUN = FALSE
    /\ THREADS_ACCESS_TOKEN = "token"
    /\ valid = "pending"
    /\ dry_run_printed = 0
    /\ archived = 0
    /\ user_id = None
    /\ item_ids = <<>>
    /\ img_idx = 1
    /\ container_id = None
    /\ last_post_id = None
    /\ reply_idx = 1
    /\ cont_id = None
    /\ source_cont_id = None
    /\ calls = <<>>
    /\ result = "pending"
    /\ printed = "nothing"
    /\ run = 1
    /\ first_calls = <<>>
    /\ applied = NotApplied

\* The image_url arguments: None, or a URL.
ImageUrlArgs == {None} \cup { ImageUrl(j) : j \in 1..MaxImages }

ApplyFormatOutput ==
    /\ pc = "apply"
    /\ \E image_url \in ImageUrlArgs :
        applied' = [fn |-> "format_output", image_url |-> image_url,
                    value |-> format_output(content, image_url, source_url)]
    /\ pc' = "applied"
    /\ UNCHANGED <<Inputs, PipelineVars, PostVars, run, first_calls>>

\* The arguments _create_container can be given: a text, None or an id to
\* reply to, and None or a list of children (None and [] are both falsy).
TextArgs == {"", "T"}
ReplyToArgs == {None, "p1"}
ChildrenArgs == { <<>>, <<"c1">>, <<"c1", "c2">> }

ApplyCreateContainer ==
    /\ pc = "apply"
    /\ \E text \in TextArgs, image_url \in ImageUrlArgs,
          reply_to_id \in ReplyToArgs, is_carousel_item \in BOOLEAN,
          children \in ChildrenArgs :
        applied' = [fn |-> "_create_container", text |-> text,
                    image_url |-> image_url, reply_to_id |-> reply_to_id,
                    is_carousel_item |-> is_carousel_item,
                    children |-> children,
                    value |-> CreateParams(text, image_url, reply_to_id,
                                           is_carousel_item, children)]
    /\ pc' = "applied"
    /\ UNCHANGED <<Inputs, PipelineVars, PostVars, run, first_calls>>

PureNext ==
    \/ ApplyFormatOutput
    \/ ApplyCreateContainer

PureSpec == PureInit /\ [][PureNext]_vars

(* C22: format_output(data, image_url, source_url) returns the content     *)
(* unchanged in structure: type is data's type ("single" when data has      *)
(* none), main_post.text is data's main_post, main_post.image_url is the    *)
(* image_url given (None stays None), replies is data's replies, same       *)
(* order and same length, and source_reply is the citation line made of    *)
(* source_url.                                                              *)
C22_FormatOutputKeepsContent ==
    applied.fn = "format_output" =>
        LET out == applied.value IN
        /\ content.type # Absent => out.type = content.type
        /\ content.type = Absent => out.type = "single"
        /\ content.main_post # Absent => out.main_post.text = content.main_post
        /\ out.main_post.image_url = applied.image_url
        /\ content.replies_kind = "list" =>
            /\ out.replies_kind = "list"
            /\ Len(out.replies) = Len(content.replies)
            /\ \A i \in 1..Len(content.replies) :
                   out.replies[i] = content.replies[i]
        /\ out.source_reply = "출처 : " \o source_url

\* format_output applied to content with two replies and no type, once
\* without an image.
C22_Witness ==
    /\ applied.fn = "format_output"
    /\ content.type = Absent
    /\ Len(content.replies) = 2
    /\ applied.image_url = None
    /\ applied.value.main_post.image_url = None
    /\ Len(applied.value.replies) = 2

\* requests leaves a parameter whose value is None out of the request.
Carries(v) == v # Absent /\ v # None

IsCarouselItemRequest(r) ==
    /\ r.media_type = "IMAGE" /\ Carries(r.image_url)
    /\ r.is_carousel_item = "true"
    /\ ~Carries(r.text) /\ ~Carries(r.reply_to_id) /\ ~Carries(r.children)

IsCarouselParentRequest(r) ==
    /\ r.media_type = "CAROUSEL" /\ Carries(r.children) /\ Carries(r.text)
    /\ ~Carries(r.image_url) /\ ~Carries(r.is_carousel_item)

IsSingleImageRequest(r) ==
    /\ r.media_type = "IMAGE" /\ Carries(r.text) /\ Carries(r.image_url)
    /\ ~Carries(r.is_carousel_item) /\ ~Carries(r.children)

IsPlainTextRequest(r) ==
    /\ r.media_type = "TEXT" /\ Carries(r.text)
    /\ ~Carries(r.image_url)
    /\ ~Carries(r.is_carousel_item) /\ ~Carries(r.children)

ShapesOf(r) ==
    { s \in {"carousel-item", "carousel-parent", "single image", "plain text"} :
        \/ s = "carousel-item" /\ IsCarouselItemRequest(r)
        \/ s = "carousel-parent" /\ IsCarouselParentRequest(r)
        \/ s = "single image" /\ IsSingleImageRequest(r)
        \/ s = "plain text" /\ IsPlainTextRequest(r) }

----------------------------------------------------------------------------
\* The place of a request's post in the run: the user lookup, the carousel
\* items in the order of the images, the root, the replies in their order,
\* the citation.
Rank(c) ==
    IF c.post = "me" THEN 0
    ELSE IF c.post = "item" THEN c.idx
    ELSE IF c.post = "root" THEN MaxImages + 1
    ELSE IF c.post = "reply" THEN MaxImages + 1 + c.idx
    ELSE MaxImages + MaxReplies + 2

(* C23: the run is strictly sequential.  Every request is answered before  *)
(* the next is made, so the log holds the requests in the order of the      *)
(* posts, a post's creation before its publish.  A container is published   *)
(* only by the request right after the creation that returned its id, and   *)
(* the container of the next post of the chain is created only after the    *)
(* publish of the post before has returned, or after that post's creation   *)
(* failed and left nothing to publish.                                      *)
C23_StrictlySequential ==
    \A n \in CallIdx :
        /\ calls[n].outcome \in Outcomes
        /\ \A m \in 1..(n - 1) :
            /\ Rank(calls[m]) <= Rank(calls[n])
            /\ Rank(calls[m]) = Rank(calls[n]) =>
                   calls[m].api = "create" /\ calls[n].api = "publish"
        /\ calls[n].api = "publish" =>
            /\ n > 1
            /\ calls[n - 1].api = "create"
            /\ calls[n - 1].post = calls[n].post
            /\ calls[n - 1].idx = calls[n].idx
            /\ Succeeded(calls[n - 1])
            /\ calls[n].params.creation_id = calls[n - 1].ret
        /\ (calls[n].api = "create" /\ calls[n].post \in {"reply", "citation"}) =>
            /\ n > 1
            /\ \/ calls[n - 1].api = "publish" /\ calls[n - 1].outcome # "transport_error"
               \/ /\ calls[n - 1].api = "create"
                  /\ calls[n - 1].post = "reply"
                  /\ Failed(calls[n - 1])
        /\ n < Len(calls) => calls[n].outcome # "transport_error"

\* A chain of root, two replies and citation, each published in its turn.
C23_Witness ==
    /\ pc = "done"
    /\ Len(calls) = 9
    /\ calls[8].post = "citation" /\ calls[8].api = "create"
    /\ calls[9].post = "citation" /\ calls[9].api = "publish"
    /\ calls[7].post = "reply" /\ calls[7].idx = 2 /\ calls[7].api = "publish"

----------------------------------------------------------------------------
\* The create or publish request n came back without an id although nothing
\* was raised: a 2xx response whose JSON has no id, or a response that
\* raise_for_status() or json() rejected.
CameBackEmpty(n) ==
    IsContainerCall(calls[n]) /\ calls[n].outcome \in {"no_id", "http_error"}

(* C25: a 2xx response whose JSON body has no id is handled like a failed  *)
(* call.  After such a create response no publish is requested for that     *)
(* post; after such a publish response last_post_id is not updated; for the *)
(* root the run aborts with False, and for a reply the loop stops and the   *)
(* next request creates the citation as a reply to the last published post: *)
(* the same for the response without id as for the response with an error   *)
(* status.                                                                   *)
C25_MissingIdIsFailure ==
    /\ LET S == { m \in CallIdx : /\ calls[m].api = "publish"
                                  /\ calls[m].post \in {"root", "reply"}
                                  /\ calls[m].outcome = "ok" }
       IN  last_post_id = IF S = {} THEN None
                          ELSE calls[CHOOSE m \in S : \A k \in S : k <= m].ret
    /\ \A n \in CallIdx : CameBackEmpty(n) =>
        /\ calls[n].ret = None
        /\ (calls[n].api = "create" /\ n < Len(calls)) =>
               ~(calls[n + 1].api = "publish" /\ calls[n + 1].post = calls[n].post)
        /\ \A m \in CallIdx :
               calls[m].params.reply_to_id # Absent =>
                   calls[m].params.reply_to_id # calls[n].ret
        /\ calls[n].post = "root" =>
            /\ n = Len(calls)
            /\ pc \in {"returned", "done"}
            /\ result = "False"
        /\ calls[n].post = "reply" =>
            IF n = Len(calls)
            THEN pc = "citation_create"
            ELSE /\ calls[n + 1].api = "create"
                 /\ calls[n + 1].post = "citation"
                 /\ calls[n + 1].params.reply_to_id = LastPublishedBefore(n)
        /\ calls[n].post = "citation" =>
            /\ n = Len(calls)
            /\ pc \in {"returned", "done"}

\* A 2xx response without id met at each place: the root's creation, a
\* reply's publish (the citation then made), the citation's creation.
C25_Witness ==
    \E n \in CallIdx :
        /\ n < Len(calls)
        /\ calls[n].outcome = "no_id"
        /\ calls[n].api = "publish"
        /\ calls[n].post = "reply"
        /\ calls[n].idx = 1
        /\ ReplyCount = 2
        /\ calls[n + 1].post = "citation"

----------------------------------------------------------------------------
(* print_dry_run: the posts it lists *)

\* One post of the preview: its number in brackets, which post it is, the
\* images listed under it, and its text.
PreviewPost(number, post, idx, carousel, images, text) ==
    [number |-> number, post |-> post, idx |-> idx, carousel |-> carousel,
     images |-> images, text |-> text]

\* [1] the main post: all the images in carousel mode, else image 0 if any.
DryRunMain(d, images) ==
    LET carousel == (IF d.type = Absent THEN "single" ELSE d.type) = "single"
                    /\ Len(images) > 1
    IN  PreviewPost(1, "root", 0, carousel,
                    IF carousel THEN images
                    ELSE IF Len(images) > 0 THEN <<images[1]>> ELSE <<>>,
                    d.main_post)

\* DryRunReply listing under reply i the image before its own.
DryRunReply_OffByOne(d, images, i) ==
    PreviewPost(i + 1, "reply", i, FALSE,
                IF Len(images) > i - 1 THEN <<images[i]>> ELSE <<>>,
                d.replies[i])

\* [i + 2] reply i of enumerate, reply i + 1 here, with image i + 1 if there
\* is one.
DryRunReply(d, images, i) ==
    PreviewPost(i + 1, "reply", i, FALSE,
                IF Len(images) > i THEN <<images[i + 1]>> ELSE <<>>,
                d.replies[i])

\* [reply_num] the citation, always last.
DryRunCitation(d, url) ==
    PreviewPost(IF d.type = "multi" THEN Len(d.replies) + 2 ELSE 2,
                "citation", 0, FALSE, <<>>, "출처 : " \o url)

print_dry_run(d, images, url) ==
    <<DryRunMain(d, images)>>
    \o (IF d.type = "multi"
        THEN [i \in 1..Len(d.replies) |-> DryRunReply(d, images, i)]
        ELSE <<>>)
    \o <<DryRunCitation(d, url)>>

(* C26: one citation text format is applied consistently: for the same     *)
(* source_url the source_reply of format_output, the citation line of       *)
(* print_dry_run and the citation text post_to_threads posts are the same   *)
(* string.                                                                   *)
C26_OneCitationFormat ==
    \A n \in CallIdx :
        (calls[n].api = "create" /\ calls[n].post = "citation") =>
            LET preview == print_dry_run(data, image_urls, source_url) IN
            /\ calls[n].params.text =
                   format_output(content, MainImage, source_url).source_reply
            /\ calls[n].params.text = preview[Len(preview)].text

IsChainCreate(c) == IsChainCall(c) /\ c.api = "create"

\* The containers of the chain's posts the run asked for, in order.
ChainCreates == SelectSeq(calls, IsChainCreate)

RECURSIVE ImagesOf(_)
\* The images the requests of a sequence carry, in order.
ImagesOf(cs) ==
    IF cs = <<>> THEN <<>>
    ELSE <<Head(cs).params.image_url>> \o ImagesOf(Tail(cs))

(* C27: for every content and image list the dry-run preview lists the     *)
(* posts post_to_threads creates when all calls succeed, in the same order  *)
(* with the same images: the carousel with all the images exactly when      *)
(* production builds the carousel, images[0] on the root otherwise,         *)
(* images[i] on reply i when there is one, replies only for Multi, and the  *)
(* citation last, numbered len(replies) + 2 (2 for Single).                 *)
C27_PreviewMatchesProduction ==
    (pc = "done" /\ AllOk) =>
        LET preview == print_dry_run(data, image_urls, source_url) IN
        /\ Len(preview) = Len(ChainCreates)
        /\ \A k \in 1..Len(preview) :
            LET shown == preview[k]
                made == ChainCreates[k]
            IN
            /\ shown.number = k
            /\ shown.post = made.post
            /\ shown.idx = made.idx
            /\ shown.post # "citation" => shown.text = made.params.text
            /\ shown.carousel <=> made.params.media_type = "CAROUSEL"
            /\ shown.carousel =>
                /\ shown.images = image_urls
                /\ shown.images = ImagesOf(ItemCalls)
            /\ ~shown.carousel =>
                IF made.params.image_url = Absent
                THEN shown.images = <<>>
                ELSE shown.images = <<made.params.image_url>>
        /\ preview[Len(preview)].post = "citation"
        /\ preview[Len(preview)].number =
               IF data.type = "multi" THEN Len(data.replies) + 2 ELSE 2

\* Multi content with two replies and three images, and Single content with
\* replies and three images (a carousel, no reply listed).
C27_Witness ==
    /\ pc = "done"
    /\ AllOk
    /\ Len(image_urls) = 3
    /\ Len(data.replies) = 2
    /\ \/ data.type = "multi" /\ Len(ChainCreates) = 4
       \/ data.type = "single" /\ Len(ItemCalls) = 3 /\ Len(ChainCreates) = 2

----------------------------------------------------------------------------
\* The positions of a run inside post_to_threads.
InPostToThreads ==
    pc \in {"lookup_user", "carousel_items", "carousel_parent", "root_create",
            "root_publish", "reply_create", "reply_publish",
            "citation_create", "citation_publish", "returned", "crashed"}

(* C28: in dry-run mode, and in production mode when no access token is    *)
(* configured, the run makes no call to the publishing platform at all, no  *)
(* user lookup, no create, no publish: it prints the preview instead.       *)
(* post_to_threads is entered only when DRY_RUN is off and a token is       *)
(* present.                                                                  *)
C28_NoCallWithoutProduction ==
    /\ (DRY_RUN \/ THREADS_ACCESS_TOKEN = None) =>
        /\ calls = <<>>
        /\ ~InPostToThreads
        /\ result = "pending"
        /\ pc \in {"archive", "ended"} /\ valid = "True" => dry_run_printed = 1
    /\ (calls # <<>> \/ InPostToThreads) =>
        /\ ~DRY_RUN
        /\ THREADS_ACCESS_TOKEN # None
        /\ dry_run_printed = 0

\* A production run without token that ended after its preview.
C28_Witness ==
    /\ pc = "ended"
    /\ valid = "True"
    /\ ~DRY_RUN
    /\ THREADS_ACCESS_TOKEN = None
    /\ dry_run_printed = 1
    /\ archived = 1
    /\ calls = <<>>

(* C29: once the content has passed validation the archive step runs       *)
(* exactly once, at the end of the run and after the output step, whatever  *)
(* the output step did: after a dry run, after a publish that succeeded,    *)
(* after a publish that post_to_threads reported as failed.                 *)
C29_ArchiveExactlyOnce ==
    valid = "True" =>
        /\ archived <= 1
        /\ archived = 1 =>
            /\ pc = "ended"
            /\ dry_run_printed = 1 \/ printed \in {"published", "failed"}
        /\ ~ENABLED PipelineNext => archived = 1

----------------------------------------------------------------------------
IsLookup(c) == c.api = "me"
IsRootCreate(c) == c.api = "create" /\ c.post \in {"item", "root"}
IsFurtherCreate(c) == c.api = "create" /\ c.post \in {"reply", "citation"}
IsPublish(c) == c.api = "publish"

\* The requests of the run of one kind.
Count(Test(_)) == Len(SelectSeq(calls, Test))

\* A run that has not ended can take its next step, and the requests made so
\* far are within the bounds of each kind.
CallBounds ==
    /\ Terminated \/ ENABLED Next
    /\ Count(IsLookup) <= 1
    /\ Count(IsRootCreate) <= Len(image_urls) + 1
    /\ Count(IsFurtherCreate) <= Len(data.replies) + 1
    /\ Count(IsPublish) <= Len(data.replies) + 2
    /\ Len(calls) =
           Count(IsLookup) + Count(IsRootCreate) + Count(IsFurtherCreate)
           + Count(IsPublish)
    /\ ~Terminated =>
           Len(calls) < 1 + (Len(image_urls) + 1) + (Len(data.replies) + 1)
                        + (Len(data.replies) + 2)

(* C30: every run of post_to_threads terminates, for every content, image  *)
(* list and pattern of answers: a run that has not ended can always take    *)
(* its next step, every step makes one request more or is the report that   *)
(* ends the run, and a run makes at most 1 user lookup, len(images) + 1     *)
(* creation requests for the root, len(replies) + 1 further creation        *)
(* requests and len(replies) + 2 publish requests.                          *)
C30_TerminatesWithinBounds ==
    /\ []CallBounds
    /\ [][\/ Len(calls') = Len(calls) + 1
          \/ pc = "returned" /\ pc' = "done" /\ calls' = calls]_vars

\* A finished run that made every request the bounds allow for its replies,
\* and a finished carousel run that made one request for each image and one
\* for the parent.
C30_Witness ==
    /\ pc = "done"
    /\ \/ /\ Len(data.replies) = 2
          /\ Count(IsFurtherCreate) = 3
          /\ Count(IsPublish) = 4
       \/ /\ Len(image_urls) = 3
          /\ Count(IsRootCreate) = 4

====
